---- MODULE Spec2Model ----
(***************************************************************************)
(* Model of delete_inactive_load_balancers.py: main() and                  *)
(* LoadBalancerCleaner.  One action per gateway call made by               *)
(* find_and_delete_inactive_lbs, with the code that follows the call up to *)
(* the next one.  The gateway (boto3 elbv2/elb clients), the wall clock    *)
(* and the operator at the prompt are the environment: every answer they   *)
(* can give is drawn with \E.                                              *)
(***************************************************************************)
EXTENDS Integers, Sequences, FiniteSets, TLC

\* ----------------------------------------------------------------- bounds
MaxModern == 2          \* ELBv2 records one listing returns
MaxLegacy == 1          \* Classic records one listing returns
MaxTG == 2              \* target groups of one ELBv2 record
MaxTargets == 1         \* members of one target group
MaxInstances == 1       \* instances attached to one Classic record
MaxClock == 1           \* seconds the wall clock advances during one run

\* ------------------------------------------------------ program constants
SecondsPerDay == 86400

\* Optional[T]: None is the empty tuple, a present value x is <<x>>.
None == <<>>
Some(x) == <<x>>

\* Python truthiness of an Optional[str]: None and "" are falsy.
Truthy(opt) == opt # None /\ opt[1] # ""

\* str.lower() on the strings of the model's alphabets.
Lower(s) ==
    CASE s \in {"YES", "Yes", "yEs", "yeS", "YEs", "yES", "YeS"} -> "yes"
      [] s = "NO" -> "no"
      [] s = "Y" -> "y"
      [] s = " YES" -> " yes"
      [] s = "Healthy" -> "healthy"
      [] OTHER -> s

\* What a gateway call can do: return, raise botocore ClientError (the
\* service answered with an error), or raise another botocore exception
\* (BotoCoreError: EndpointConnectionError, ReadTimeoutError, ...).
Outcomes == {"ok", "ClientError", "BotoCoreError"}

\* Answers typed at the confirmation prompt.
Responses == {"yes", "YES", "y", "no", "", " yes"}

\* State strings describe_target_health returns (TargetHealthStateEnum).
TargetStates == {"initial", "healthy", "unhealthy", "draining"}
TargetLists == UNION {[1..n -> TargetStates] : n \in 0..MaxTargets}

\* Tags.
TagKeys == {"Owner", "Env"}
TagValues == {"", "team-x", "team-y"}
EmptyTags == [k \in {} |-> ""]
TagDicts == UNION {[D -> TagValues] : D \in SUBSET TagKeys}
\* Tag sets a record of the inventory carries.
InventoryTags == {EmptyTags, [k \in {"Owner"} |-> "team-x"], [k \in {"Owner"} |-> "team-y"]}

\* Creation times, in seconds relative to the start of the run: one second
\* short of a day old at the start, and one second in the future.
CreatedTimes == {1 - SecondsPerDay, 1}
OptCreated == {None} \cup {Some(t) : t \in CreatedTimes}

\* A listing returns handles; a record's fields (CreatedTime, Instances) and
\* what the other calls say about it are drawn when the code first reads them.
Handles(n) == [k \in 1..n |-> k]
ModernInventories == {Handles(n) : n \in 0..MaxModern}
LegacyInventories == {Handles(n) : n \in 0..MaxLegacy}
InstanceLists == {Handles(n) : n \in 0..MaxInstances}

MaxRecords == IF MaxModern > MaxLegacy THEN MaxModern ELSE MaxLegacy
RecordIds == 1..MaxRecords

\* Command lines.
ArgSpace ==
    [no_dry_run : BOOLEAN, min_age_days : {-1, 0, 1},
     skip_protection_check : BOOLEAN, filter_tag_key : {"Owner"},
     filter_tag_value : {"team-x"}, no_tag_filter : BOOLEAN]

VARIABLES
    pc,             \* position in main / find_and_delete_inactive_lbs
    exit_code,      \* None while running, Some(code) once the process ended
    raised,         \* the gateway call whose exception was not caught, or ""
    args,           \* parsed command line
    response,       \* None, or Some(answer typed at the prompt)
    constructed,    \* LoadBalancerCleaner.__init__ has run
    dry_run, min_age_days, filter_tag_key, filter_tag_value, check_protection,
    now,            \* the wall clock
    elbv2_lbs, classic_lbs,
    i,              \* index of the record the classification loop is at
    created_time, instances, tags, tag_ok, age_days, is_inactive, is_old_enough,
    tg_count, tg_idx,
    inactive_elbv2, too_new_elbv2, skipped_no_created_time, skipped_no_tag,
    inactive_classic, too_new_classic, skipped_no_created_time_classic,
    skipped_no_tag_classic,
    deleted_count, skipped_count,
    d,              \* index into the eligible list the deletion loop is at
    \* ---- observation of the run and of the environment (not program state)
    contacted,      \* some gateway call has been issued in this run
    mutated,        \* some modify/delete call has been issued in this run
    calls,          \* <<operation, family, index, result>>: the modify and
                    \* delete calls of the pass in progress, and the read
                    \* calls issued for the record in progress
    seen,           \* what the loop found about the record it classified
                    \* last and about the records of the eligible list
    truly_active,   \* ELBv2 records that really have an active target, among
                    \* the one being classified and the eligible ones whose
                    \* deletion has not been gone through yet
    lookup_failed,  \* a liveness lookup of the current record raised ClientError
    protection      \* deletion protection at the service of the ELBv2 record
                    \* whose deletion is in progress

mainVars == <<args, response, constructed>>
selfVars == <<dry_run, min_age_days, filter_tag_key, filter_tag_value, check_protection>>
listVars == <<elbv2_lbs, classic_lbs>>
localVars == <<created_time, instances, tags, tag_ok, age_days, is_inactive,
               is_old_enough, tg_count, tg_idx, lookup_failed>>
tallyM == <<inactive_elbv2, too_new_elbv2, skipped_no_created_time, skipped_no_tag>>
tallyC == <<inactive_classic, too_new_classic, skipped_no_created_time_classic,
            skipped_no_tag_classic>>
countVars == <<deleted_count, skipped_count>>
logVars == <<contacted, mutated, calls>>
envVars == <<truly_active, protection>>
vars == <<pc, exit_code, raised, mainVars, selfVars, now, listVars, i, localVars,
          tallyM, tallyC, countVars, d, logVars, seen, envVars>>

\* ------------------------------------------------------- pure functions

\* dict.get(key): None when the key is absent.
DictGet(dict, key) == IF key \in DOMAIN dict THEN Some(dict[key]) ELSE None

\* A faulty has_required_tag: the configured value is never compared.
has_required_tag_key_only(key, value, t) ==
    IF ~Truthy(key) THEN TRUE ELSE DictGet(t, key[1]) # None

\* has_required_tag(self, tags)
has_required_tag(key, value, t) ==
    IF ~Truthy(key) THEN TRUE
    ELSE LET tag_value == DictGet(t, key[1]) IN
         IF tag_value = None THEN FALSE
         ELSE IF Truthy(value) THEN tag_value[1] = value[1]
         ELSE TRUE

\* A faulty state list: members still registering are not counted.
active_states_without_initial == {"healthy", "draining"}

active_states == {"healthy", "initial", "draining"}

\* The loop of has_active_targets over the returned targets, from index k.
RECURSIVE AnyActiveFrom(_, _)
AnyActiveFrom(targets, k) ==
    IF k > Len(targets) THEN FALSE
    ELSE IF Lower(targets[k]) \in active_states THEN TRUE
    ELSE AnyActiveFrom(targets, k + 1)

\* has_active_targets(tg), given what describe_target_health did.
has_active_targets(outcome, targets) ==
    IF outcome = "ok" THEN AnyActiveFrom(targets, 1) ELSE FALSE

\* get_target_groups_for_lb(arn): the number of groups returned, given what
\* describe_target_groups did and the n groups the record has.
get_target_groups_for_lb(outcome, n) == IF outcome = "ok" THEN n ELSE 0

\* is_classic_elb_inactive(lb)
is_classic_elb_inactive(attached) == Len(attached) = 0

\* get_age_days(created_time) with the clock reading t; in seconds (the
\* code divides by 86400.0, the comparison below multiplies instead).
get_age_days(created, t) == t - created

\* A faulty threshold test: an age equal to the threshold is too new.
is_older_than_threshold_strict(created, t, min_age) ==
    get_age_days(created, t) > min_age * SecondsPerDay

\* is_older_than_threshold(created_time) with the clock reading t.
is_older_than_threshold(created, t, min_age) ==
    get_age_days(created, t) >= min_age * SecondsPerDay

\* Readings a later sample of datetime.now() can give.
ClockReadings == now..MaxClock

\* The environment's own notion of an active member (the service's fact,
\* not the code's test).
ReallyActive(targets) ==
    \E k \in DOMAIN targets : targets[k] \in {"healthy", "initial", "draining"}

Call(op, fam, k, res) == <<op, fam, k, res>>
Issued(op, fam, k) == \E c \in calls : c[1] = op /\ c[2] = fam /\ c[3] = k
MutatingOps == {"setDeletionProtection", "deleteModern", "deleteLegacy"}

\* What the loop has found about one record; "?" is not (yet) computed.
Unseen == [tag |-> "?", created |-> "?", inactive |-> "?", old |-> "?"]
YesNo(b) == IF b THEN "yes" ELSE "no"
InList(list, k) == \E j \in DOMAIN list : list[j] = k
\* The findings about the records outside the eligible list are dropped
\* when the loop moves on.
Forget(s, eligible) == [k \in RecordIds |-> IF InList(eligible, k) THEN s[k] ELSE Unseen]

\* ------------------------------------------------------------------ Init
Defaults ==
    /\ exit_code = None /\ raised = "" /\ response = None
    /\ dry_run = TRUE /\ min_age_days = 2
    /\ check_protection = TRUE
    /\ now = 0
    /\ elbv2_lbs = <<>> /\ classic_lbs = <<>>
    /\ i = 0 /\ age_days = 0 /\ created_time = None /\ instances = <<>>
    /\ is_inactive = FALSE /\ is_old_enough = FALSE /\ tg_count = 0 /\ tg_idx = 0
    /\ inactive_elbv2 = <<>> /\ too_new_elbv2 = <<>>
    /\ skipped_no_created_time = 0 /\ skipped_no_tag = 0
    /\ inactive_classic = <<>> /\ too_new_classic = <<>>
    /\ skipped_no_created_time_classic = 0 /\ skipped_no_tag_classic = 0
    /\ deleted_count = 0 /\ skipped_count = 0 /\ d = 0
    /\ contacted = FALSE /\ mutated = FALSE /\ calls = {}
    /\ seen = [k \in RecordIds |-> Unseen]
    /\ truly_active = {} /\ lookup_failed = FALSE
    /\ protection = "unknown"

Init ==
    /\ pc = "main"
    /\ args \in ArgSpace
    /\ constructed = FALSE
    /\ filter_tag_key = None /\ filter_tag_value = None
    /\ tags = EmptyTags /\ tag_ok = FALSE
    /\ Defaults

\* --------------------------------------------------------------- helpers

\* An exception no handler catches: the traceback ends the process.
Crash(op) == pc' = "crashed" /\ raised' = op /\ exit_code' = Some(1)

\* sys.exit(code)
Exit(code) == pc' = "exited" /\ exit_code' = Some(code) /\ raised' = raised

Running(at) == pc' = at /\ exit_code' = exit_code /\ raised' = raised

\* The loop locals are dead once an iteration ends.
ResetLocals ==
    /\ created_time' = None /\ instances' = <<>>
    /\ tags' = EmptyTags /\ tag_ok' = FALSE /\ age_days' = 0
    /\ is_inactive' = FALSE /\ is_old_enough' = FALSE
    /\ tg_count' = 0 /\ tg_idx' = 0 /\ lookup_failed' = FALSE

Log(op, fam, k, res) ==
    /\ calls' = {c \in calls : c[1] \in MutatingOps \/ c[3] = k}
                  \cup {Call(op, fam, k, res)}
    /\ contacted' = TRUE
    /\ mutated' = (mutated \/ op \in MutatingOps)

\* A faulty prompt test: "y" is taken for "yes".
IsYesOrY(r) == Lower(r) \in {"yes", "y"}

\* line 532: the answer that lets an execute-mode run go on
IsYes(r) == Lower(r) = "yes"

\* A faulty branch: the delete methods are called whatever dry_run says.
DeletingAlways(dry) == TRUE

\* lines 323, 387: the branch that calls the delete methods
Deleting(dry) == ~dry

\* lines 304-306, 369-371: the record is appended to the eligible list
IsEligible(inactive, old) == inactive /\ old

\* lines 304-310, 369-375: the record is appended to the too-new list
IsTooNew(inactive, old) == inactive /\ ~old

\* A faulty tag test: a record that fails the filter is not skipped.
TagExcludedNever(matched) == FALSE

\* lines 293, 358: `if not self.has_required_tag(tags)`, the record is skipped
TagExcluded(matched) == ~matched

\* lines 516-517
TagKeyOf(a) == IF a.no_tag_filter THEN None ELSE Some(a.filter_tag_key)
TagValueOf(a) == IF a.no_tag_filter THEN None ELSE Some(a.filter_tag_value)

\* ------------------------------------------------------------------ main

\* lines 508-513: the age argument is validated before anything else
MainValidate ==
    /\ pc = "main"
    /\ IF args.min_age_days < 0 THEN Exit(1) ELSE Running("confirm")
    /\ UNCHANGED <<mainVars, selfVars, now, listVars, i, localVars, tallyM, tallyC,
                   countVars, d, logVars, seen, envVars>>

\* lines 519-534: the prompt of an execute-mode run
MainConfirm ==
    /\ pc = "confirm"
    /\ IF ~args.no_dry_run
         THEN Running("construct") /\ response' = response
         ELSE \E r \in Responses :
                 /\ response' = Some(r)
                 /\ IF IsYes(r) THEN Running("construct") ELSE Exit(0)
    /\ UNCHANGED <<args, constructed, selfVars, now, listVars, i, localVars, tallyM,
                   tallyC, countVars, d, logVars, seen, envVars>>

\* lines 536-544 and __init__ (24-47): boto3.client may raise anything,
\* which __init__ turns into exit code 1
MainConstruct ==
    /\ pc = "construct"
    /\ \E clients_ok \in BOOLEAN :
         IF clients_ok
           THEN /\ Running("list_elbv2")
                /\ constructed' = TRUE
                /\ dry_run' = ~args.no_dry_run
                /\ min_age_days' = args.min_age_days
                /\ filter_tag_key' = TagKeyOf(args)
                /\ filter_tag_value' = TagValueOf(args)
                /\ check_protection' = ~args.skip_protection_check
           ELSE /\ Exit(1)
                /\ UNCHANGED <<constructed, selfVars>>
    /\ UNCHANGED <<args, response, now, listVars, i, localVars, tallyM, tallyC,
                   countVars, d, logVars, seen, envVars>>

\* -------------------------------------------------- ELBv2 classification

\* `for lb in elbv2_lbs` moving on after record i, then line 315
ModernLoopNext(eligible) ==
    IF i < Len(elbv2_lbs)
      THEN Running("elbv2_tags") /\ i' = i + 1 /\ d' = d
      ELSE /\ i' = 0
           /\ IF eligible # <<>> THEN Running("elbv2_delete") /\ d' = 1
                                 ELSE Running("list_classic") /\ d' = 0

\* lines 278-284 with get_all_load_balancers_v2 (49-56)
ListElbv2 ==
    /\ pc = "list_elbv2"
    /\ \E o \in Outcomes, lbs \in ModernInventories :
         /\ o # "ok" => lbs = <<>>
         /\ Log("listModern", "elbv2", 0, "")
         /\ IF o = "BotoCoreError"
              THEN Crash("listModern") /\ UNCHANGED <<elbv2_lbs, i>>
              ELSE /\ elbv2_lbs' = IF o = "ok" THEN lbs ELSE <<>>
                   /\ IF elbv2_lbs' # <<>>
                        THEN Running("elbv2_tags") /\ i' = 1
                        ELSE Running("list_classic") /\ i' = 0
    /\ UNCHANGED <<mainVars, selfVars, now, classic_lbs, localVars, tallyM, tallyC,
                   countVars, d, seen, envVars>>

\* lines 285-297 with get_elbv2_tags (155-165)
ModernTags ==
    /\ pc = "elbv2_tags"
    /\ \E o \in Outcomes, real \in InventoryTags :
         /\ o # "ok" => real = EmptyTags
         /\ Log("getTags", "elbv2", i, "")
         /\ IF o = "BotoCoreError"
              THEN /\ Crash("getTags")
                   /\ UNCHANGED <<i, d, localVars, skipped_no_tag, seen>>
              ELSE LET fetched == IF o = "ok" THEN real ELSE EmptyTags
                       matched == has_required_tag(filter_tag_key, filter_tag_value, fetched)
                   IN /\ seen' = [Forget(seen, inactive_elbv2) EXCEPT ![i].tag = YesNo(matched)]
                      /\ IF ~TagExcluded(matched)
                           THEN /\ Running("elbv2_age")
                                /\ tags' = fetched /\ tag_ok' = TRUE
                                /\ UNCHANGED <<i, d, created_time, instances, age_days,
                                               is_inactive, is_old_enough, tg_count, tg_idx,
                                               lookup_failed, skipped_no_tag>>
                           ELSE /\ skipped_no_tag' = skipped_no_tag + 1
                                /\ ResetLocals
                                /\ ModernLoopNext(inactive_elbv2)
    /\ UNCHANGED <<mainVars, selfVars, now, listVars, inactive_elbv2, too_new_elbv2,
                   skipped_no_created_time, tallyC, countVars, envVars>>

\* lines 289 and 299-300, or 311-313 when the record has no CreatedTime
ModernAge ==
    /\ pc = "elbv2_age"
    /\ \E created \in OptCreated :
         /\ seen' = [seen EXCEPT ![i].created = YesNo(created # None)]
         /\ IF created = None
              THEN /\ skipped_no_created_time' = skipped_no_created_time + 1
                   /\ ResetLocals
                   /\ ModernLoopNext(inactive_elbv2)
                   /\ now' = now
              ELSE \E t \in ClockReadings :
                      /\ now' = t
                      /\ created_time' = created
                      /\ age_days' = get_age_days(created[1], t)
                      /\ Running("elbv2_tgs")
                      /\ UNCHANGED <<i, d, instances, tags, tag_ok, is_inactive,
                                     is_old_enough, tg_count, tg_idx, lookup_failed,
                                     skipped_no_created_time>>
    /\ UNCHANGED <<mainVars, selfVars, listVars, inactive_elbv2, too_new_elbv2,
                   skipped_no_tag, tallyC, countVars, logVars, envVars>>

\* line 301: is_elbv2_inactive (88-98) calling get_target_groups_for_lb (58-67).
\* When the lookup fails the record's real members stay unseen: they are
\* drawn here only to record whether the record is really active (one
\* unseen group stands for all of them), and nothing is drawn for a call
\* that raises past the handler.
ModernTargetGroups ==
    /\ pc = "elbv2_tgs"
    /\ \E o \in Outcomes, n \in 0..MaxTG, unseen \in TargetLists :
         /\ Log("describeTargetGroups", "elbv2", i, "")
         /\ o = "ok" => unseen = <<>>
         /\ n = 0 => unseen = <<>>
         /\ o = "BotoCoreError" => n = 0
         /\ o = "ClientError" => n <= 1
         /\ IF o = "BotoCoreError"
              THEN /\ Crash("describeTargetGroups")
                   /\ UNCHANGED <<tg_count, tg_idx, is_inactive, lookup_failed, truly_active,
                                  seen>>
              ELSE LET target_groups == get_target_groups_for_lb(o, n) IN
                   /\ lookup_failed' = (o = "ClientError")
                   /\ truly_active' = IF ReallyActive(unseen) THEN truly_active \cup {i}
                                                              ELSE truly_active
                   /\ IF target_groups = 0
                        THEN /\ Running("elbv2_old") /\ is_inactive' = TRUE
                             /\ tg_count' = 0 /\ tg_idx' = 0
                             /\ seen' = [seen EXCEPT ![i].inactive = "yes"]
                        ELSE /\ Running("elbv2_health") /\ is_inactive' = is_inactive
                             /\ tg_count' = target_groups /\ tg_idx' = 1 /\ seen' = seen
    /\ UNCHANGED <<mainVars, selfVars, now, listVars, i, d, created_time, instances, tags,
                   tag_ok, age_days, is_old_enough, tallyM, tallyC, countVars, protection>>

\* lines 101-105: one turn of the loop over the target groups, calling
\* has_active_targets (69-86) on group tg_idx
ModernHealth ==
    /\ pc = "elbv2_health"
    /\ \E o \in Outcomes, targets \in TargetLists :
         /\ o = "BotoCoreError" => targets = <<>>
         /\ Log("describeTargetHealth", "elbv2", i, "")
         /\ IF o = "BotoCoreError"
              THEN /\ Crash("describeTargetHealth")
                   /\ UNCHANGED <<tg_count, tg_idx, is_inactive, lookup_failed,
                                  truly_active, seen>>
              ELSE /\ truly_active' = IF ReallyActive(targets) THEN truly_active \cup {i}
                                                                ELSE truly_active
                   /\ lookup_failed' = (lookup_failed \/ o = "ClientError")
                   /\ IF has_active_targets(o, targets)
                        THEN /\ Running("elbv2_old") /\ is_inactive' = FALSE
                             /\ tg_count' = 0 /\ tg_idx' = 0
                             /\ seen' = [seen EXCEPT ![i].inactive = "no"]
                        ELSE IF tg_idx < tg_count
                          THEN /\ Running("elbv2_health") /\ tg_idx' = tg_idx + 1
                               /\ tg_count' = tg_count
                               /\ is_inactive' = is_inactive /\ seen' = seen
                          ELSE /\ Running("elbv2_old") /\ is_inactive' = TRUE
                               /\ tg_count' = 0 /\ tg_idx' = 0
                               /\ seen' = [seen EXCEPT ![i].inactive = "yes"]
    /\ UNCHANGED <<mainVars, selfVars, now, listVars, i, d, created_time, instances, tags,
                   tag_ok, age_days, is_old_enough, tallyM, tallyC, countVars,
                   protection>>

\* lines 302-310: the threshold test samples the clock again
ModernOld ==
    /\ pc = "elbv2_old"
    /\ \E t \in ClockReadings :
         LET old == is_older_than_threshold(created_time[1], t, min_age_days)
             eligible == IF IsEligible(is_inactive, old) THEN Append(inactive_elbv2, i)
                                                         ELSE inactive_elbv2
         IN /\ now' = t
            /\ inactive_elbv2' = eligible
            /\ too_new_elbv2' = IF IsTooNew(is_inactive, old)
                                  THEN Append(too_new_elbv2, i)
                                  ELSE too_new_elbv2
            /\ seen' = [seen EXCEPT ![i].old = YesNo(old)]
            /\ truly_active' = IF eligible = inactive_elbv2 THEN truly_active \ {i}
                                                             ELSE truly_active
            /\ ResetLocals
            /\ ModernLoopNext(eligible)
    /\ UNCHANGED <<mainVars, selfVars, listVars, skipped_no_created_time, skipped_no_tag,
                   tallyC, countVars, logVars, protection>>

\* ------------------------------------------------------- ELBv2 deletion

\* `for lb in inactive_elbv2` moving on after entry d, then line 342
ModernDeleteNext ==
    IF d < Len(inactive_elbv2)
      THEN Running("elbv2_delete") /\ d' = d + 1
      ELSE Running("list_classic") /\ d' = 0

\* lines 317-326: the age is sampled again for the report; dry-run stops here
ModernDeleteStart ==
    /\ pc = "elbv2_delete"
    /\ \E t \in ClockReadings : now' = t
    /\ IF Deleting(dry_run)
         THEN /\ Running(IF check_protection THEN "elbv2_get_protection"
                                             ELSE "elbv2_delete_call")
              /\ d' = d
         ELSE ModernDeleteNext
    /\ protection' = "unknown"
    /\ truly_active' = truly_active \ {inactive_elbv2[j] : j \in 1..(d - 1)}
    /\ seen' = Forget(seen, inactive_elbv2)
    /\ UNCHANGED <<mainVars, selfVars, listVars, i, localVars, tallyM, tallyC, countVars,
                   logVars>>

\* line 236 with get_deletion_protection (201-214)
GetDeletionProtection ==
    /\ pc = "elbv2_get_protection"
    /\ LET k == inactive_elbv2[d] IN
       \E o \in Outcomes, p \in {"on", "off"} :
         /\ protection \in {"unknown", p}
         /\ protection' = p
         /\ Log("getDeletionProtection", "elbv2", k,
                IF o = "ok" /\ p = "on" THEN "enabled" ELSE "")
         /\ CASE o = "BotoCoreError" -> Crash("getDeletionProtection")
              [] o = "ClientError" -> Running("elbv2_delete_call")
              [] o = "ok" -> Running(IF p = "on" THEN "elbv2_disable_protection"
                                                ELSE "elbv2_delete_call")
    /\ UNCHANGED <<mainVars, selfVars, now, listVars, i, localVars, tallyM, tallyC,
                   countVars, d, seen, truly_active>>

\* lines 237-240 with disable_deletion_protection (216-231), then 329-330
DisableDeletionProtection ==
    /\ pc = "elbv2_disable_protection"
    /\ LET k == inactive_elbv2[d] IN
       \E o \in Outcomes :
         /\ Log("setDeletionProtection", "elbv2", k, o)
         /\ CASE o = "BotoCoreError" ->
                   /\ Crash("setDeletionProtection")
                   /\ UNCHANGED <<d, skipped_count, protection>>
              [] o = "ClientError" ->
                   /\ skipped_count' = skipped_count + 1
                   /\ ModernDeleteNext
                   /\ UNCHANGED protection
              [] o = "ok" ->
                   /\ protection' = "off"
                   /\ Running("elbv2_delete_call")
                   /\ UNCHANGED <<d, skipped_count>>
    /\ UNCHANGED <<mainVars, selfVars, now, listVars, i, localVars, tallyM, tallyC,
                   deleted_count, seen, truly_active>>

\* lines 242-248, then 327-330.  The service refuses to delete a load
\* balancer whose deletion protection is on.
DeleteElbv2 ==
    /\ pc = "elbv2_delete_call"
    /\ LET k == inactive_elbv2[d] IN
       \E o \in Outcomes :
         /\ protection = "on" => o # "ok"
         /\ Log("deleteModern", "elbv2", k, o)
         /\ CASE o = "BotoCoreError" ->
                   /\ Crash("deleteModern")
                   /\ UNCHANGED <<d, countVars>>
              [] o = "ClientError" ->
                   /\ skipped_count' = skipped_count + 1
                   /\ deleted_count' = deleted_count
                   /\ ModernDeleteNext
              [] o = "ok" ->
                   /\ deleted_count' = deleted_count + 1
                   /\ skipped_count' = skipped_count
                   /\ ModernDeleteNext
    /\ UNCHANGED <<mainVars, selfVars, now, listVars, i, localVars, tallyM, tallyC,
                   seen, envVars>>

\* -------------------------------------------------------------- Classic

\* `for lb in classic_lbs` moving on after record i, then line 380
ClassicLoopNext(eligible) ==
    IF i < Len(classic_lbs)
      THEN Running("classic_tags") /\ i' = i + 1 /\ d' = d
      ELSE /\ i' = 0
           /\ IF eligible # <<>> THEN Running("classic_delete") /\ d' = 1
                                 ELSE Running("summary") /\ d' = 0

\* lines 343-350 with get_all_classic_load_balancers (107-114).  Nothing
\* after line 342 can call the elbv2 client: what was observed about the
\* ELBv2 records is dropped here, and of inactive_elbv2 and too_new_elbv2
\* only len() is read from here on (lines 411-418), so only their lengths
\* are kept.
ListClassic ==
    /\ pc = "list_classic"
    /\ \E o \in Outcomes, lbs \in LegacyInventories :
         /\ o # "ok" => lbs = <<>>
         /\ calls' = {Call("listLegacy", "classic", 0, "")}
         /\ contacted' = TRUE /\ mutated' = mutated
         /\ IF o = "BotoCoreError"
              THEN Crash("listLegacy") /\ UNCHANGED <<classic_lbs, i>>
              ELSE /\ classic_lbs' = IF o = "ok" THEN lbs ELSE <<>>
                   /\ IF classic_lbs' # <<>>
                        THEN Running("classic_tags") /\ i' = 1
                        ELSE Running("summary") /\ i' = 0
    /\ seen' = [k \in RecordIds |-> Unseen]
    /\ truly_active' = {}
    /\ protection' = "unknown"
    /\ inactive_elbv2' = Handles(Len(inactive_elbv2))
    /\ too_new_elbv2' = Handles(Len(too_new_elbv2))
    /\ UNCHANGED <<mainVars, selfVars, now, elbv2_lbs, localVars, skipped_no_created_time,
                   skipped_no_tag, tallyC, countVars, d>>

\* lines 351-362 with get_classic_elb_tags (167-177)
ClassicTags ==
    /\ pc = "classic_tags"
    /\ \E o \in Outcomes, real \in InventoryTags :
         /\ o # "ok" => real = EmptyTags
         /\ Log("getTags", "classic", i, "")
         /\ IF o = "BotoCoreError"
              THEN /\ Crash("getTags")
                   /\ UNCHANGED <<i, d, localVars, skipped_no_tag_classic, seen>>
              ELSE LET fetched == IF o = "ok" THEN real ELSE EmptyTags
                       matched == has_required_tag(filter_tag_key, filter_tag_value, fetched)
                   IN /\ seen' = [Forget(seen, inactive_classic) EXCEPT ![i].tag = YesNo(matched)]
                      /\ IF ~TagExcluded(matched)
                           THEN /\ Running("classic_age")
                                /\ tags' = fetched /\ tag_ok' = TRUE
                                /\ UNCHANGED <<i, d, created_time, instances, age_days,
                                               is_inactive, is_old_enough, tg_count, tg_idx,
                                               lookup_failed, skipped_no_tag_classic>>
                           ELSE /\ skipped_no_tag_classic' = skipped_no_tag_classic + 1
                                /\ ResetLocals
                                /\ ClassicLoopNext(inactive_classic)
    /\ UNCHANGED <<mainVars, selfVars, now, listVars, tallyM, inactive_classic,
                   too_new_classic, skipped_no_created_time_classic, countVars, envVars>>

\* lines 353-354 and 364-366, or 376-378 when the record has no CreatedTime
ClassicAge ==
    /\ pc = "classic_age"
    /\ \E created \in OptCreated, attached \in InstanceLists :
         /\ IF created = None
              THEN /\ skipped_no_created_time_classic' = skipped_no_created_time_classic + 1
                   /\ seen' = [seen EXCEPT ![i].created = "no"]
                   /\ ResetLocals
                   /\ ClassicLoopNext(inactive_classic)
                   /\ now' = now
              ELSE \E t \in ClockReadings :
                      /\ now' = t
                      /\ created_time' = created
                      /\ instances' = attached
                      /\ age_days' = get_age_days(created[1], t)
                      /\ is_inactive' = is_classic_elb_inactive(attached)
                      /\ seen' = [seen EXCEPT ![i].created = "yes",
                                              ![i].inactive = YesNo(is_inactive')]
                      /\ Running("classic_old")
                      /\ UNCHANGED <<i, d, tags, tag_ok, is_old_enough, tg_count, tg_idx,
                                     lookup_failed, skipped_no_created_time_classic>>
    /\ UNCHANGED <<mainVars, selfVars, listVars, tallyM, inactive_classic, too_new_classic,
                   skipped_no_tag_classic, countVars, logVars, envVars>>

\* lines 367-375
ClassicOld ==
    /\ pc = "classic_old"
    /\ \E t \in ClockReadings :
         LET old == is_older_than_threshold(created_time[1], t, min_age_days)
             eligible == IF IsEligible(is_inactive, old) THEN Append(inactive_classic, i)
                                                         ELSE inactive_classic
         IN /\ now' = t
            /\ inactive_classic' = eligible
            /\ too_new_classic' = IF IsTooNew(is_inactive, old)
                                    THEN Append(too_new_classic, i)
                                    ELSE too_new_classic
            /\ seen' = [seen EXCEPT ![i].old = YesNo(old)]
            /\ ResetLocals
            /\ ClassicLoopNext(eligible)
    /\ UNCHANGED <<mainVars, selfVars, listVars, tallyM, skipped_no_created_time_classic,
                   skipped_no_tag_classic, countVars, logVars, envVars>>

\* `for lb in inactive_classic` moving on after entry d, then line 406
ClassicDeleteNext ==
    IF d < Len(inactive_classic)
      THEN Running("classic_delete") /\ d' = d + 1
      ELSE Running("summary") /\ d' = 0

\* lines 382-390
ClassicDeleteStart ==
    /\ pc = "classic_delete"
    /\ \E t \in ClockReadings : now' = t
    /\ IF Deleting(dry_run)
         THEN Running("classic_delete_call") /\ d' = d
         ELSE ClassicDeleteNext
    /\ seen' = Forget(seen, inactive_classic)
    /\ UNCHANGED <<mainVars, selfVars, listVars, i, localVars, tallyM, tallyC, countVars,
                   logVars, envVars>>

\* lines 391-394 with delete_classic_elb (250-258)
DeleteClassicElb ==
    /\ pc = "classic_delete_call"
    /\ LET k == inactive_classic[d] IN
       \E o \in Outcomes :
         /\ Log("deleteLegacy", "classic", k, "")
         /\ CASE o = "BotoCoreError" ->
                   /\ Crash("deleteLegacy")
                   /\ UNCHANGED <<d, countVars>>
              [] o = "ClientError" ->
                   /\ skipped_count' = skipped_count + 1
                   /\ deleted_count' = deleted_count
                   /\ ClassicDeleteNext
              [] o = "ok" ->
                   /\ deleted_count' = deleted_count + 1
                   /\ skipped_count' = skipped_count
                   /\ ClassicDeleteNext
    /\ UNCHANGED <<mainVars, selfVars, now, listVars, i, localVars, tallyM, tallyC,
                   seen, envVars>>

\* lines 406-431: the summary is printed and main returns
Summary ==
    /\ pc = "summary"
    /\ pc' = "done" /\ exit_code' = Some(0) /\ raised' = raised
    /\ UNCHANGED <<mainVars, selfVars, now, listVars, i, localVars, tallyM, tallyC,
                   countVars, d, logVars, seen, envVars>>

Next ==
    \/ MainValidate \/ MainConfirm \/ MainConstruct
    \/ ListElbv2 \/ ModernTags \/ ModernAge \/ ModernTargetGroups \/ ModernHealth
    \/ ModernOld
    \/ ModernDeleteStart \/ GetDeletionProtection \/ DisableDeletionProtection
    \/ DeleteElbv2
    \/ ListClassic \/ ClassicTags \/ ClassicAge \/ ClassicOld
    \/ ClassicDeleteStart \/ DeleteClassicElb
    \/ Summary

Spec == Init /\ [][Next]_vars

\* ------------------------------------------- has_required_tag on its own

\* Filter configurations a cleaner can be constructed with (__init__ takes
\* Optional[str] for both; the command line can pass the empty string).
TagFilterKeys == {None, Some(""), Some("Owner"), Some("Env")}
TagFilterValues == {None, Some(""), Some("team-x"), Some("team-y")}

InitTag ==
    /\ pc = "has_required_tag"
    /\ args = [no_dry_run |-> FALSE, min_age_days |-> 2, skip_protection_check |-> FALSE,
               filter_tag_key |-> "Owner", filter_tag_value |-> "team-x",
               no_tag_filter |-> FALSE]
    /\ constructed = TRUE
    /\ filter_tag_key \in TagFilterKeys
    /\ filter_tag_value \in TagFilterValues
    /\ tags \in TagDicts
    /\ tag_ok = FALSE
    /\ Defaults

\* one call of has_required_tag(tags)
HasRequiredTagCall ==
    /\ pc = "has_required_tag"
    /\ tag_ok' = has_required_tag(filter_tag_key, filter_tag_value, tags)
    /\ pc' = "returned"
    /\ UNCHANGED <<exit_code, raised, mainVars, selfVars, now, listVars, i, created_time,
                   instances, tags, age_days, is_inactive, is_old_enough, tg_count, tg_idx,
                   lookup_failed, tallyM, tallyC, countVars, d, logVars, seen, envVars>>

NextTag == HasRequiredTagCall

SpecTag == InitTag /\ [][NextTag]_vars

\* ---------------------------------------------------------------- claims

AllYes == [tag |-> "yes", created |-> "yes", inactive |-> "yes", old |-> "yes"]

\* C1: in a dry run (dry_run = TRUE) no setDeletionProtection, deleteModern
\* or deleteLegacy call is ever issued, and deleted_count and skipped_count
\* stay 0.
C1_DryRunNeverMutates ==
    (constructed /\ dry_run) =>
        /\ ~mutated
        /\ \A c \in calls : c[1] \notin MutatingOps
        /\ deleted_count = 0
        /\ skipped_count = 0

\* A dry run that found eligible records in both families has ended.
C1_Witness ==
    /\ constructed /\ dry_run /\ pc = "done"
    /\ inactive_elbv2 # <<>> /\ inactive_classic # <<>>

\* C2: every delete or setDeletionProtection call targets a record that was
\* listed, has a creation timestamp, matched the tag filter, was found
\* inactive and was old enough when classified; a record that is active is
\* never the target of such a call.
C2_MutationsOnlyOnEligible ==
    \A c \in calls :
        c[1] \in MutatingOps =>
            /\ c[3] \in 1..Len(IF c[2] = "elbv2" THEN elbv2_lbs ELSE classic_lbs)
            /\ seen[c[3]] = AllYes
            /\ c[2] = "elbv2" => c[3] \notin truly_active

\* C3: an eligible ELBv2 record whose protection was reported enabled and
\* whose disable call failed is counted in skipped_count, and deleteModern
\* is never issued for it.
C3_DisableFailureIsSkipped ==
    LET failed == {c[3] : c \in {x \in calls : x[1] = "setDeletionProtection"
                                                 /\ x[4] # "ok"}}
    IN /\ \A k \in failed : ~Issued("deleteModern", "elbv2", k)
       /\ skipped_count >= Cardinality(failed)

\* C4: a failed deletion never ends the run, and when an execute-mode run
\* ends deleted_count + skipped_count is the number of eligible records of
\* both families.
C4_ContinueOnError ==
    /\ raised \notin MutatingOps
    /\ (pc = "done" /\ ~dry_run) =>
          deleted_count + skipped_count = Len(inactive_elbv2) + Len(inactive_classic)

\* C5: once the cleaner is constructed no gateway error ends the run: every
\* one is caught where the call is made.
C5_NoGatewayErrorEscapes == constructed => pc # "crashed"

C7_AsStated ==
    pc = "returned" =>
        LET k == filter_tag_key
            v == filter_tag_value
        IN /\ k = None => tag_ok
           /\ (k # None /\ k[1] \notin DOMAIN tags) => ~tag_ok
           /\ (k # None /\ k[1] \in DOMAIN tags /\ v = None) => tag_ok
           /\ (k # None /\ k[1] \in DOMAIN tags /\ v # None) =>
                  (tag_ok <=> tags[k[1]] = v[1])

\* C7: has_required_tag, with an empty string counting as not configured.
\* No key or an empty key: matches; non-empty key absent from the tags: no
\* match; key present and no value or an empty value: matches; non-empty
\* key and value: matches exactly when the tag's value is equal.
C7_TagPredicate ==
    pc = "returned" =>
        LET k == filter_tag_key
            v == filter_tag_value
            no_key == k = None \/ k = Some("")
            no_value == v = None \/ v = Some("")
        IN /\ no_key => tag_ok
           /\ (~no_key /\ k[1] \notin DOMAIN tags) => ~tag_ok
           /\ (~no_key /\ k[1] \in DOMAIN tags /\ no_value) => tag_ok
           /\ (~no_key /\ k[1] \in DOMAIN tags /\ ~no_value) =>
                  (tag_ok <=> tags[k[1]] = v[1])

\* The filter Owner = "" has accepted a record tagged Owner = team-x.
C7_Witness ==
    /\ pc = "returned"
    /\ filter_tag_key = Some("Owner") /\ filter_tag_value = Some("")
    /\ "Owner" \in DOMAIN tags /\ tags["Owner"] = "team-x"
    /\ tag_ok

\* C8 as stated: with threshold 0 no record is ever classified TooNew.
C8_AsStated ==
    (constructed /\ min_age_days = 0) => (too_new_elbv2 = <<>> /\ too_new_classic = <<>>)

\* C8: with threshold 0, an inactive, tag-matched record whose creation time
\* is not later than the clock reading of the threshold test is appended to
\* the eligible list and not to the too-new list; one created later than
\* that reading is appended to the too-new list.
C8_ThresholdZero ==
    [][(min_age_days = 0 /\ is_inactive /\ pc \in {"elbv2_old", "classic_old"}) =>
          LET eligible == IF pc = "elbv2_old" THEN inactive_elbv2 ELSE inactive_classic
              eligible2 == IF pc = "elbv2_old" THEN inactive_elbv2' ELSE inactive_classic'
              too_new == IF pc = "elbv2_old" THEN too_new_elbv2 ELSE too_new_classic
              too_new2 == IF pc = "elbv2_old" THEN too_new_elbv2' ELSE too_new_classic'
          IN IF created_time[1] <= now'
               THEN eligible2 = Append(eligible, i) /\ too_new2 = too_new
               ELSE eligible2 = eligible /\ too_new2 = Append(too_new, i)]_vars

\* With threshold 0 one ELBv2 record was found eligible and another too new.
C8_Witness ==
    constructed /\ min_age_days = 0 /\ inactive_elbv2 # <<>> /\ too_new_elbv2 # <<>>

\* The answers that are "yes" whatever the case of their letters.
YesAnswers == {"yes", "Yes", "YES", "yEs", "yeS", "YEs", "yES", "YeS"}

\* C9: an answer at the prompt other than "yes" in any letter case ends the
\* process with exit code 0, the cleaner is not constructed and no gateway
\* call is issued; a modify or delete call is only issued after a yes.
C9_DeclinedExitsClean ==
    /\ (response # None /\ response[1] \notin YesAnswers) =>
          /\ pc = "exited" /\ exit_code = Some(0)
          /\ ~constructed /\ ~contacted /\ ~mutated
    /\ mutated => (response # None /\ response[1] \in YesAnswers)

\* The answer "y" was given and the process has ended.
C9_Witness == response = Some("y") /\ pc = "exited" /\ exit_code = Some(0)

\* C10: an ELBv2 record that really has an active member is not classified
\* inactive when a liveness lookup fails, is not listed eligible and is not
\* the target of deleteModern.
C10_LookupFailureKeepsActive ==
    /\ (pc = "elbv2_old" /\ lookup_failed /\ i \in truly_active) => ~is_inactive
    /\ \A k \in truly_active :
          ~InList(inactive_elbv2, k) /\ ~Issued("deleteModern", "elbv2", k)

\* The positions at which an age is computed or a liveness lookup is issued
\* for record i.
AgeOrLivenessPcs ==
    {"elbv2_age", "elbv2_tgs", "elbv2_health", "elbv2_old", "classic_age", "classic_old"}
LivenessLookups == {"describeTargetGroups", "describeTargetHealth"}

\* C11: a record whose tags fail has_required_tag is counted in
\* skipped_no_tag (skipped_no_tag_classic) in that step, no age is computed
\* and no target-group or target-health lookup is issued for it, and the
\* loop leaves it; an age computation or liveness lookup for a record only
\* happens after the tag lookup for that record, which matched.
C11_TagExcludedShortCircuits ==
    [][/\ (pc \in {"elbv2_tags", "classic_tags"} /\ pc' # "crashed"
             /\ seen'[i].tag = "no") =>
            /\ IF pc = "elbv2_tags"
                 THEN skipped_no_tag' = skipped_no_tag + 1
                 ELSE skipped_no_tag_classic' = skipped_no_tag_classic + 1
            /\ created_time' = None /\ age_days' = 0 /\ now' = now
            /\ seen'[i].created = "?" /\ seen'[i].inactive = "?" /\ seen'[i].old = "?"
            /\ \A c \in calls' : c[3] = i => c[1] \notin LivenessLookups
            /\ ~(i' = i /\ pc' \in AgeOrLivenessPcs)
       /\ pc' \in AgeOrLivenessPcs =>
            /\ seen'[i'].tag = "yes"
            /\ \E c \in calls' : c[1] = "getTags" /\ c[3] = i'
            /\ \A c \in calls' : c[1] \in LivenessLookups => c[3] = i']_vars

\* A record was skipped for its tags and the loop has gone on to the next.
C11_Witness ==
    /\ skipped_no_tag = 1 /\ pc = "elbv2_tags" /\ i = 2
    /\ seen[1].tag = "no" /\ seen[1].created = "?"

\* C12: the threshold test and the deletion loop use the clock reading the
\* record's reported age was computed with (now is not sampled again), so
\* an inactive record is appended to the eligible list exactly when its
\* reported age_days is at or above the threshold.
C12_NowSampledOnce ==
    [][/\ pc \in {"elbv2_old", "classic_old", "elbv2_delete", "classic_delete"} =>
            now' = now
       /\ (pc \in {"elbv2_old", "classic_old"} /\ is_inactive) =>
            LET eligible == IF pc = "elbv2_old" THEN inactive_elbv2 ELSE inactive_classic
                eligible2 == IF pc = "elbv2_old" THEN inactive_elbv2' ELSE inactive_classic'
            IN (eligible2 = Append(eligible, i)) <=>
                   (age_days >= min_age_days * SecondsPerDay)]_vars

ProtectionCalls == {"getDeletionProtection", "setDeletionProtection"}

\* C13: setDeletionProtection is only issued when protection-check is
\* enabled and getDeletionProtection reported enabled for that record; with
\* protection-check disabled neither protection call is made and the
\* deletion loop goes straight to deleteModern; protection that was turned
\* off stays off, and a record whose protection was disabled and whose
\* delete call then failed is counted in skipped_count.
C13_ProtectionOrderOneWay ==
    LET cur == inactive_elbv2[d]
        failed == {c[3] : c \in {x \in calls :
                      /\ x[1] = "deleteModern" /\ x[4] # "ok"
                      /\ Call("setDeletionProtection", "elbv2", x[3], "ok") \in calls}}
    IN /\ pc = "elbv2_disable_protection" =>
            /\ check_protection
            /\ Call("getDeletionProtection", "elbv2", cur, "enabled") \in calls
       /\ (\E c \in calls : c[1] = "setDeletionProtection") => check_protection
       /\ (constructed /\ ~check_protection) =>
            /\ \A c \in calls : c[1] \notin ProtectionCalls
            /\ pc \notin {"elbv2_get_protection", "elbv2_disable_protection"}
       /\ ((pc = "elbv2_delete_call" \/ (pc = "crashed" /\ raised = "deleteModern"))
             /\ Call("setDeletionProtection", "elbv2", cur, "ok") \in calls) =>
            protection = "off"
       /\ skipped_count >= Cardinality(failed)
====
